---- MODULE Spec2Model ----
(***************************************************************************)
(* Model of simple_salesforce/bulk.py: the Bulk API orchestrator           *)
(* (SFBulkType._bulk_operation, its helpers and its six entry points), the *)
(* HTTP call gate (_call_salesforce) with the header mapping shared by a   *)
(* handler and its handles, the exception router (_exception_handler) and  *)
(* the JSON repair loop of SFBulkType._get_batch_results; and of           *)
(* simple_salesforce/login.py: SalesforceLogin.                            *)
(*                                                                         *)
(* Specifications: Spec (one orchestrated call), LiveSpec (the same with   *)
(* fairness), SpecPar (two interleaved calls), SpecCreate and SpecAdd      *)
(* (_create_job and _add_batch on their own), SpecRetrieve (the repair     *)
(* loop), SpecHttp and SpecHeaders (the gate and the router on their own), *)
(* SpecLogin (SalesforceLogin).                                            *)
(*                                                                         *)
(* Texts are sequences of one-character strings; offsets are 0-based as in *)
(* Python, so the character at offset i of s is s[i + 1].  A name or       *)
(* literal without structure of its own (an object name, null) is kept as  *)
(* one character of a text.                                                *)
(***************************************************************************)
EXTENDS Integers, Sequences, FiniteSets, TLC

\* ------------------------------------------------------------------------
\* Bounds of the model
\* ------------------------------------------------------------------------
MaxBodyLen == 4      \* longest enumerated result body
MaxPolls == 3        \* the call counters and the sleep counter saturate here
MaxDecodes == 3      \* the decode-attempt counter saturates here

\* ------------------------------------------------------------------------
\* json.loads, as used at bulk.py:176 (and result.json() at bulk.py:283)
\* ------------------------------------------------------------------------
QUOTE == "\""
WHITESPACE == {" "}
Digits == {"1", "2"}

\* the literal null, kept as one character of a text
NULL == "null"

DelimiterMsg == "Expecting ',' delimiter"

At(s, i) == IF i >= 0 /\ i < Len(s) THEN s[i + 1] ELSE ""

RECURSIVE SkipWs(_, _)
SkipWs(s, i) == IF At(s, i) \in WHITESPACE THEN SkipWs(s, i + 1) ELSE i

RECURSIVE NumEnd(_, _)
NumEnd(s, i) == IF At(s, i) \in Digits THEN NumEnd(s, i + 1) ELSE i

RECURSIVE FindQuote(_, _)
FindQuote(s, i) ==
    IF i >= Len(s) THEN -1
    ELSE IF s[i + 1] = QUOTE THEN i ELSE FindQuote(s, i + 1)

Slice(s, a, b) == SubSeq(s, a + 1, b)      \* s[a:b]

ParseOk(v, e) == [ok |-> TRUE, val |-> v, end |-> e, msg |-> "", pos |-> 0]
ParseErr(m, p) == [ok |-> FALSE, val |-> <<>>, end |-> 0, msg |-> m, pos |-> p]

\* A decoded value is represented by its compact serialisation: a list is
\* "[" v1 "," v2 ... "]", a dict is "{" k1 ":" v1 "," ... "}" with one entry
\* per distinct key (the last value wins, the first position is kept).
RECURSIVE JoinValues(_)
JoinValues(vs) ==
    IF Len(vs) = 0 THEN <<>>
    ELSE IF Len(vs) = 1 THEN vs[1]
    ELSE vs[1] \o <<",">> \o JoinValues(Tail(vs))

ListValue(vs) == <<"[">> \o JoinValues(vs) \o <<"]">>

DictPut(pairs, k, v) ==
    IF \E i \in 1..Len(pairs) : pairs[i][1] = k
    THEN [i \in 1..Len(pairs) |->
             IF pairs[i][1] = k THEN <<k, v>> ELSE pairs[i]]
    ELSE Append(pairs, <<k, v>>)

DictValue(pairs) ==
    <<"{">> \o JoinValues([i \in 1..Len(pairs) |->
                              pairs[i][1] \o <<":">> \o pairs[i][2]])
            \o <<"}">>

\* scanstring(s, end): end is the offset after the opening quote
ScanString(s, end) ==
    LET q == FindQuote(s, end)
    IN IF q < 0 THEN ParseErr("Unterminated string starting at", end - 1)
       ELSE ParseOk(<<QUOTE>> \o Slice(s, end, q) \o <<QUOTE>>, q + 1)

RECURSIVE scan_once(_, _)
RECURSIVE JSONArray(_, _)
RECURSIVE ArrayLoop(_, _, _)
RECURSIVE JSONObject(_, _)
RECURSIVE ObjectLoop(_, _, _)

\* A StopIteration of the scanner is always turned into "Expecting value"
\* at the same offset by the nearest caller, so it is reported as such here.
scan_once(s, idx) ==
    LET c == At(s, idx)
    IN CASE c = QUOTE -> ScanString(s, idx + 1)
         [] c = "{" -> JSONObject(s, idx + 1)
         [] c = "[" -> JSONArray(s, idx + 1)
         [] c \in Digits -> ParseOk(Slice(s, idx, NumEnd(s, idx)), NumEnd(s, idx))
         [] c = NULL -> ParseOk(<<NULL>>, idx + 1)
         [] OTHER -> ParseErr("Expecting value", idx)

JSONArray(s, end0) ==
    LET end == SkipWs(s, end0)
    IN IF At(s, end) = "]" THEN ParseOk(ListValue(<<>>), end + 1)
       ELSE ArrayLoop(s, end, <<>>)

ArrayLoop(s, end, values) ==
    LET r == scan_once(s, end)
    IN IF ~r.ok THEN r
       ELSE LET e == SkipWs(s, r.end)
                nextchar == At(s, e)
                vs == Append(values, r.val)
            IN IF nextchar = "]" THEN ParseOk(ListValue(vs), e + 1)
               ELSE IF nextchar # "," THEN ParseErr(DelimiterMsg, e)
               ELSE ArrayLoop(s, SkipWs(s, e + 1), vs)

JSONObject(s, end0) ==
    LET end == IF At(s, end0) # QUOTE THEN SkipWs(s, end0) ELSE end0
        nextchar == At(s, end)
    IN IF nextchar = "}" THEN ParseOk(DictValue(<<>>), end + 1)
       ELSE IF nextchar # QUOTE
            THEN ParseErr("Expecting property name enclosed in double quotes", end)
       ELSE ObjectLoop(s, end + 1, <<>>)

\* end is the offset after the opening quote of the next key
ObjectLoop(s, end, pairs) ==
    LET k == ScanString(s, end)
    IN IF ~k.ok THEN k
       ELSE LET c == SkipWs(s, k.end)
            IN IF At(s, c) # ":" THEN ParseErr("Expecting ':' delimiter", c)
               ELSE LET v == scan_once(s, SkipWs(s, c + 1))
                    IN IF ~v.ok THEN v
                       ELSE LET e == SkipWs(s, v.end)
                                nextchar == At(s, e)
                                ps == DictPut(pairs, k.val, v.val)
                            IN IF nextchar = "}" THEN ParseOk(DictValue(ps), e + 1)
                               ELSE IF nextchar # "," THEN ParseErr(DelimiterMsg, e)
                               ELSE LET n == SkipWs(s, e + 1)
                                    IN IF At(s, n) # QUOTE
                                       THEN ParseErr("Expecting property name enclosed in double quotes", n)
                                       ELSE ObjectLoop(s, n + 1, ps)

\* json.loads(text): JSONDecoder.decode
Loads(s) ==
    LET r == scan_once(s, SkipWs(s, 0))
    IN IF ~r.ok THEN r
       ELSE LET e == SkipWs(s, r.end)
            IN IF e # Len(s) THEN ParseErr("Extra data", e) ELSE ParseOk(r.val, e)


\* ------------------------------------------------------------------------
\* Python values and json.dumps, as used at bulk.py:97, 111 and 132.
\* A str is its text; any other value (None, a list, a dict) is represented
\* by its compact serialisation, as the decoded values above.
\* ------------------------------------------------------------------------
PyStr(t) == [type |-> "str", val |-> t]
PyObj(c) == [type |-> "obj", val |-> c]
PyNone == PyObj(<<NULL>>)
\* no value was passed
Absent == [type |-> "absent", val |-> <<>>]

\* the text of a string literal: " and \ are escaped
RECURSIVE Escape(_)
Escape(t) ==
    IF t = <<>> THEN <<>>
    ELSE (IF Head(t) \in {QUOTE, "\\"} THEN <<"\\", Head(t)>> ELSE <<Head(t)>>)
         \o Escape(Tail(t))

\* the compact serialisation of a Python value
Compact(v) ==
    IF v.type = "str" THEN <<QUOTE>> \o Escape(v.val) \o <<QUOTE>> ELSE v.val

\* the item and key separators of json.dumps, ", " and ": ", written into a
\* compact serialisation; instr: inside a string literal, esc: after a \
RECURSIVE Separated(_, _, _)
Separated(c, instr, esc) ==
    IF c = <<>> THEN <<>>
    ELSE LET h == Head(c)
         IN IF instr
            THEN <<h>> \o Separated(Tail(c), esc \/ h # QUOTE,
                                    ~esc /\ h = "\\")
            ELSE IF h \in {",", ":"}
            THEN <<h, " ">> \o Separated(Tail(c), FALSE, FALSE)
            ELSE <<h>> \o Separated(Tail(c), h = QUOTE, FALSE)

\* json.dumps(v): the text of the serialisation
dumps(v) == Separated(Compact(v), FALSE, FALSE)


\* ------------------------------------------------------------------------
\* Inputs
\* ------------------------------------------------------------------------
Operations == {"insert", "update", "upsert", "delete", "hardDelete", "query"}

JobIds == {1, 2}
BatchIds == {1}

\* batch states a status read can report: the five states of the Bulk API,
\* the literal tested at bulk.py:211 and one value outside both
BatchStates == {"Queued", "InProgress", "Completed", "Failed",
                "NotProcessed", "Not Processed", "Aborted"}

\* status codes given to the gate and to the exception router directly
StatusCodes == {101, 199, 200, 204, 299, 300, 301, 399, 400, 401, 403, 404,
                405, 500}
\* status codes the transport answers with during an orchestrated call
FlowStatusCodes == {200, 300, 404}

Names == {"", "Lead"}

\* the object names of the handles, the external-id arguments and the data
\* given to the entry points
ObjectNames == {"Lead", "Contact"}
ExternalIds == {PyNone, PyStr(<<"Ext__c">>)}
QueryString == PyStr(<<"SELECT Id FROM Lead">>)
RecordList ==
    PyObj(<<"[", "{", QUOTE, "Name", QUOTE, ":", QUOTE, "a", ",", "b", QUOTE, "}", ",",
                 "{", QUOTE, "Name", QUOTE, ":", "1", "}", "]">>)
Datas == {QueryString, RecordList}

ErrorBodyJson == <<"[", "1", "]">>
ErrorBodySpaced == <<"[", "1", ",", " ", "1", "]">>
ErrorBodyRaw == <<"a", "b">>
ErrorBodies == {ErrorBodyJson, ErrorBodySpaced, ErrorBodyRaw}

TwoObjects ==
    <<"{", QUOTE, "a", QUOTE, ":", "1", "}",
      "{", QUOTE, "b", QUOTE, ":", "2", "}">>
TwoObjectsInList == <<"[">> \o TwoObjects \o <<"]">>
TwoObjectsJoined ==
    <<"[", "{", QUOTE, "a", QUOTE, ":", "1", "}", ",",
           "{", QUOTE, "b", QUOTE, ":", "2", "}", "]">>
TruncatedObject == <<"{", QUOTE, "a", QUOTE, ":">>
TruncatedPair == <<"{", QUOTE, "a", QUOTE, ":", "1">>
MissingColon == <<"{", QUOTE, "a", QUOTE, "1", "}">>
PairsNoComma ==
    <<"{", QUOTE, "a", QUOTE, ":", "1", " ", QUOTE, "b", QUOTE, ":", "2", "}">>
NamedBodies == {TwoObjects, TwoObjectsInList, TwoObjectsJoined,
                TruncatedObject, TruncatedPair, MissingColon, PairsNoComma}

BodyAlphabet == {"[", "]", ",", "1", " "}
Strings(n) == UNION {[1..k -> BodyAlphabet] : k \in 0..n}
Bodies == Strings(MaxBodyLen) \cup NamedBodies

\* error bodies and result bodies answered during an orchestrated call
FlowErrorBodies == {ErrorBodyRaw}
FlowBodies == {<<"[", "1", ",", "1", "]">>, <<"[", "1", " ", "1", "]">>,
               <<"[", "1", ",">>, <<"1", "]">>}
\* decoded lists of result-set identifiers answered to a query
IdLists == {<<>>, <<"r1">>, <<"r2", "r1">>}

\* ------------------------------------------------------------------------
\* URLs, responses, errors
\* ------------------------------------------------------------------------
Url(path, j, b, r) == [path |-> path, job |-> j, batch |-> b, rid |-> r]
NoUrl == Url("", 0, 0, "")
Urls == {Url("job", 0, 0, ""), Url("job/{}/batch/{}/result", 1, 1, "")}

Response(url, status, txt) == [url |-> url, status_code |-> status, text |-> txt]
NoResponse == Response(NoUrl, 0, <<>>)

NoContent == [parsed |-> FALSE, val |-> <<>>]
NoError == [kind |-> "", url |-> NoUrl, status |-> 0, resource_name |-> "",
            content |-> NoContent]
\* a ValueError raised by result.json() / json.loads
ValueError == [kind |-> "ValueError", url |-> NoUrl, status |-> 0,
               resource_name |-> "", content |-> NoContent]

NoBatch == [jobId |-> 0, id |-> 0]

\* a call of SalesforceLogin (login.py): its arguments, its position, the
\* login requests posted, the response and the outcome
LoginArgs == {"username", "password", "security_token", "refresh_token",
              "consumer_id", "consumer_secret", "organizationId"}
NoLoginResponse == [status_code |-> 0, body |-> ""]
NoOutcome == [kind |-> "", code |-> ""]
NoLogin == [pc |-> "", args |-> [a \in LoginArgs |-> PyNone], flow |-> "",
            posts |-> 0, response |-> NoLoginResponse, outcome |-> NoOutcome]

\* an SFBulkType handle, and the state before any handle is used
Handle(nm) == [object_name |-> nm]
NoHandle == Handle("")

\* what session.request is called with, besides the url
Request(method, h, d) == [method |-> method, headers |-> h, data |-> d]
NoHeaders == [k \in {} |-> ""]
NoRequest == Request("", NoHeaders, Absent)

\* SFBulkHandler.headers as built by __init__
SessionId == "sid"
InitialHeaders ==
    [k \in {"Content-Type", "X-SFDC-Session", "X-PrettyPrint"} |->
        CASE k = "Content-Type" -> "application/json"
          [] k = "X-SFDC-Session" -> SessionId
          [] k = "X-PrettyPrint" -> "1"]

\* the mapping left as it is, the additional headers dropped
headers_update_dropped(h, additional) == h

\* headers.update(additional)
headers_update(h, additional) ==
    [k \in DOMAIN h \cup DOMAIN additional |->
        IF k \in DOMAIN additional THEN additional[k] ELSE h[k]]

\* a default of kwargs.pop('additional_headers', ...) that sets a header
additional_headers_pretty_off == [k \in {"X-PrettyPrint"} |-> "0"]

\* kwargs.pop('additional_headers', dict()) when the caller passes none
additional_headers_default == NoHeaders

\* mappings passed as additional_headers to _call_salesforce
AdditionalHeaders ==
    {NoHeaders, [k \in {"X-A"} |-> "1"], [k \in {"X-A"} |-> "2"],
     [k \in {"X-PrettyPrint"} |-> "0"]}

Key(k) == Compact(PyStr(<<k>>))

\* the payload with externalIdFieldName set for every operation
job_payload_always_external(op, nm, ext) ==
    PyObj(DictValue(DictPut(<< <<Key("operation"), Compact(PyStr(<<op>>))>>,
                               <<Key("object"), Compact(PyStr(<<nm>>))>>,
                               <<Key("contentType"), Compact(PyStr(<<"JSON">>))>> >>,
                            Key("externalIdFieldName"), Compact(ext))))

\* the payload dict of _create_job
job_payload(op, nm, ext) ==
    LET payload == << <<Key("operation"), Compact(PyStr(<<op>>))>>,
                      <<Key("object"), Compact(PyStr(<<nm>>))>>,
                      <<Key("contentType"), Compact(PyStr(<<"JSON">>))>> >>
    IN PyObj(DictValue(IF op = "upsert"
                       THEN DictPut(payload, Key("externalIdFieldName"),
                                    Compact(ext))
                       ELSE payload))

\* the payload dict of _close_job
close_payload == PyObj(DictValue(<< <<Key("state"), Compact(PyStr(<<"Closed">>))>> >>))

\* the data of the add-batch request with the serialisation applied twice
add_batch_data_twice(op, d) ==
    IF op # "query" THEN PyStr(dumps(PyStr(dumps(d)))) ELSE d

\* the data of the add-batch request
add_batch_data(op, d) == IF op # "query" THEN PyStr(dumps(d)) ELSE d
NoResults == [set |-> FALSE, val |-> <<>>]
Payload(v) == [set |-> TRUE, val |-> v]

\* the concurrent calls of _bulk_operation and the locals of one of them
CallIds == {1, 2}
Locals(p, op, j, b, u, st, ids, t, res, e) ==
    [pc |-> p, operation |-> op, job |-> j, batch |-> b, url |-> u,
     batch_status |-> st, result_data |-> ids, text |-> t, results |-> res,
     error |-> e]
NoLocals == Locals("idle", "", 0, NoBatch, NoUrl, "", <<>>, <<>>, NoResults, "")
NoCalls == [c \in CallIds |-> NoLocals]
NoOwner == [j \in JobIds |-> 0]

\* ------------------------------------------------------------------------
\* _exception_handler and _call_salesforce
\* ------------------------------------------------------------------------
\* the router without the entry for 403
exc_map_without_403(status_code) ==
    CASE status_code = 300 -> "SalesforceMoreThanOneRecord"
      [] status_code = 400 -> "SalesforceMalformedRequest"
      [] status_code = 401 -> "SalesforceExpiredSession"
      [] status_code = 404 -> "SalesforceResourceNotFound"
      [] OTHER -> "SalesforceGeneralError"

exc_map(status_code) ==
    CASE status_code = 300 -> "SalesforceMoreThanOneRecord"
      [] status_code = 400 -> "SalesforceMalformedRequest"
      [] status_code = 401 -> "SalesforceExpiredSession"
      [] status_code = 403 -> "SalesforceRefusedRequest"
      [] status_code = 404 -> "SalesforceResourceNotFound"
      [] OTHER -> "SalesforceGeneralError"

response_content(res) ==
    LET r == Loads(res.text)
    IN IF r.ok THEN [parsed |-> TRUE, val |-> r.val]
       ELSE [parsed |-> FALSE, val |-> res.text]

\* the exception raised by _exception_handler(result, name)
exception_handler(res, nm) ==
    [kind |-> exc_map(res.status_code), url |-> res.url,
     status |-> res.status_code, resource_name |-> nm,
     content |-> response_content(res)]

\* SalesforceResourceNotFound.__str__: the message template and the keyword
\* arguments that str.format fills it with
SalesforceResourceNotFound_str(e) ==
    [message |-> "Resource {name} Not Found. Response content: {content}",
     format |-> [name |-> e.resource_name, content |-> e.content]]

\* the gate with the test "status_code > 300"
call_salesforce_raises_above_300(res) == res.status_code > 300

\* the gate with the test "status_code >= 400"
call_salesforce_raises_from_400(res) == res.status_code >= 400

\* TRUE iff _call_salesforce hands the response to the exception router
call_salesforce_raises(res) == res.status_code >= 300

\* the gate handing the path of the request to the router as the name
call_salesforce_names_path(res) ==
    IF call_salesforce_raises(res)
    THEN [raised |-> TRUE, error |-> exception_handler(res, res.url.path)]
    ELSE [raised |-> FALSE, error |-> NoError]

\* the outcome of _call_salesforce for the response the session answers with
call_salesforce(res) ==
    IF call_salesforce_raises(res)
    THEN [raised |-> TRUE, error |-> exception_handler(res, "")]
    ELSE [raised |-> FALSE, error |-> NoError]

\* ------------------------------------------------------------------------
\* State
\* ------------------------------------------------------------------------
VARIABLES
    pc,            \* position of the running call
    operation,     \* operation of the running call
    job,           \* job['id'] of the created job (0: none)
    batch,         \* batch['jobId'] and batch['id'] of the added batch
    batch_status,  \* the local batch_status
    issued,        \* requests issued, per kind of call
    sleeps,        \* sleep(wait) calls performed
    seen,          \* states returned by the status reads, in order
    result,        \* the response of the last request
    name,          \* name argument of a direct _exception_handler call
    text,          \* text of the repair loop
    result_data,   \* the decoded list of result-set identifiers (query)
    orig,          \* result.text as fetched
    decodes,       \* json.loads attempts of the repair loop
    inserts,       \* commas inserted by the repair loop
    results,       \* the returned payload
    error,         \* the raised exception
    self,          \* the handle the entry point was called on
    entry,         \* the public entry point that was called
    object_name,   \* object_name of _bulk_operation
    external_id_field,  \* external_id_field of _bulk_operation
    data,          \* data of _bulk_operation
    headers,       \* the header mapping shared by the handler and its handles
    request,       \* method, headers and data of the last request
    calls,         \* the locals of each of the concurrent calls
    owner,         \* server side: the call that created each job (0: none)
    additional_headers,  \* additional_headers of a direct _call_salesforce call
    login          \* a call of SalesforceLogin: arguments, position, outcome

vars == <<pc, operation, job, batch, batch_status, issued, sleeps, seen,
          result, name, result_data, text, orig, decodes, inserts, results,
          error, self, entry, object_name, external_id_field, data, headers,
          request, calls, owner, additional_headers, login>>

\* the state of the concurrent calls
par == <<calls, owner>>

\* the entry point called and its arguments
args == <<self, entry, object_name, external_id_field, data>>

CallKinds == {"create", "add", "close", "status", "fetch", "fetch2"}

\* counters are exact up to the bound; bound + 1 stands for "more"
IncTo(c, bound) == IF c <= bound THEN c + 1 ELSE c
Issue(kind) == [issued EXCEPT ![kind] = IncTo(@, MaxPolls)]
Record(st) == IF Len(seen) < MaxPolls THEN Append(seen, st) ELSE seen

\* no request was issued yet
BlankRun ==
    /\ job = 0
    /\ batch = NoBatch
    /\ batch_status = ""
    /\ issued = [k \in CallKinds |-> 0]
    /\ sleeps = 0
    /\ seen = <<>>
    /\ result = NoResponse
    /\ name = ""
    /\ result_data = <<>>
    /\ text = <<>>
    /\ orig = <<>>
    /\ decodes = 0
    /\ inserts = 0
    /\ results = NoResults
    /\ error = NoError
    /\ headers = InitialHeaders
    /\ request = NoRequest
    /\ calls = NoCalls
    /\ owner = NoOwner
    /\ additional_headers = NoHeaders

Blank ==
    /\ BlankRun
    /\ login = NoLogin
    /\ operation = ""
    /\ self = NoHandle
    /\ entry = ""
    /\ object_name = ""
    /\ external_id_field = Absent
    /\ data = Absent

Init == pc = "idle" /\ Blank


\* ------------------------------------------------------------------------
\* The orchestrated call: SFBulkType._bulk_operation and its helpers.
\* Each action issues one request through _call_salesforce and handles the
\* response up to the next request (or the end of the call).
\* ------------------------------------------------------------------------
Raise(err) == pc' = "raised" /\ error' = err

\* the start of _bulk_operation(object_name, operation, data,
\* external_id_field)
bulk_operation(obj, op, d, ext) ==
    /\ pc = "idle"
    /\ object_name' = obj
    /\ operation' = op
    /\ data' = d
    /\ external_id_field' = ext
    /\ pc' = "create"
    /\ UNCHANGED <<job, batch, batch_status, issued, sleeps, seen, result,
                   name, result_data, text, orig, decodes, inserts, results,
                   error, headers, request, par, additional_headers, login>>

\* the public entry points of a handle; h is the handle
delete(h, d) ==
    /\ self' = h /\ entry' = "delete"
    /\ bulk_operation(h.object_name, "delete", d, PyNone)

insert(h, d) ==
    /\ self' = h /\ entry' = "insert"
    /\ bulk_operation(h.object_name, "insert", d, PyNone)

upsert(h, d, ext) ==
    /\ self' = h /\ entry' = "upsert"
    /\ bulk_operation(h.object_name, "upsert", d, ext)

update(h, d) ==
    /\ self' = h /\ entry' = "update"
    /\ bulk_operation(h.object_name, "update", d, PyNone)

\* hard_delete starting a job with the operation delete
hard_delete_as_delete(h, d) ==
    /\ self' = h /\ entry' = "hard_delete"
    /\ bulk_operation(h.object_name, "delete", d, PyNone)

hard_delete(h, d) ==
    /\ self' = h /\ entry' = "hard_delete"
    /\ bulk_operation(h.object_name, "hardDelete", d, PyNone)

query(h, d) ==
    /\ self' = h /\ entry' = "query"
    /\ bulk_operation(h.object_name, "query", d, PyNone)

create_job ==
    /\ pc = "create"
    /\ \E st \in FlowStatusCodes, body \in FlowErrorBodies, decodable \in BOOLEAN,
          id \in JobIds :
          LET res == Response(Url("job", 0, 0, ""), st,
                              IF st >= 300 THEN body ELSE <<>>)
              out == call_salesforce(res)
          IN /\ issued' = Issue("create")
             /\ result' = res
             /\ headers' = headers_update(headers, additional_headers_default)
             /\ request' = Request("POST", headers',
                                   PyStr(dumps(job_payload(operation, object_name,
                                                      external_id_field))))
             /\ IF out.raised THEN Raise(out.error) /\ job' = job
                ELSE IF ~decodable THEN Raise(ValueError) /\ job' = job
                ELSE pc' = "add" /\ job' = id /\ error' = error
    /\ UNCHANGED <<operation, batch, batch_status, sleeps, seen, name,
                   result_data, text, orig, decodes, inserts, results,
                   args, par, additional_headers, login>>

\* the response names the job the batch was added to
add_batch ==
    /\ pc = "add"
    /\ \E st \in FlowStatusCodes, body \in FlowErrorBodies, decodable \in BOOLEAN,
          bid \in BatchIds :
          LET res == Response(Url("job/{}/batch", job, 0, ""), st,
                              IF st >= 300 THEN body ELSE <<>>)
              out == call_salesforce(res)
          IN /\ issued' = Issue("add")
             /\ result' = res
             /\ headers' = headers_update(headers, additional_headers_default)
             /\ request' = Request("POST", headers',
                                   add_batch_data(operation, data))
             /\ IF out.raised THEN Raise(out.error) /\ batch' = batch
                ELSE IF ~decodable THEN Raise(ValueError) /\ batch' = batch
                ELSE /\ pc' = "close"
                     /\ batch' = [jobId |-> res.url.job, id |-> bid]
                     /\ error' = error
    /\ UNCHANGED <<operation, job, batch_status, sleeps, seen, name,
                   result_data, text, orig, decodes, inserts, results,
                   args, par, additional_headers, login>>

close_job ==
    /\ pc = "close"
    /\ \E st \in FlowStatusCodes, body \in FlowErrorBodies, decodable \in BOOLEAN :
          LET res == Response(Url("job/{}", job, 0, ""), st,
                              IF st >= 300 THEN body ELSE <<>>)
              out == call_salesforce(res)
          IN /\ issued' = Issue("close")
             /\ result' = res
             /\ headers' = headers_update(headers, additional_headers_default)
             /\ request' = Request("POST", headers',
                                   PyStr(dumps(close_payload)))
             /\ IF out.raised THEN Raise(out.error)
                ELSE IF ~decodable THEN Raise(ValueError)
                ELSE pc' = "status" /\ error' = error
    /\ UNCHANGED <<operation, job, batch, batch_status, sleeps, seen, name,
                   result_data, text, orig, decodes, inserts, results,
                   args, par, additional_headers, login>>

\* the states on which the polling loop stops (bulk.py:211)
PollingStops == {"Completed", "Failed", "Not Processed"}

\* _get_batch(...)['state'] followed by the test of the while loop
get_batch ==
    /\ pc = "status"
    /\ \E st \in FlowStatusCodes, body \in FlowErrorBodies, decodable \in BOOLEAN,
          state \in BatchStates :
          LET res == Response(Url("job/{}/batch/{}", batch.jobId, batch.id, ""),
                              st, IF st >= 300 THEN body ELSE <<>>)
              out == call_salesforce(res)
          IN /\ issued' = Issue("status")
             /\ result' = res
             /\ headers' = headers_update(headers, additional_headers_default)
             /\ request' = Request("GET", headers',
                                   Absent)
             /\ IF out.raised
                THEN Raise(out.error) /\ UNCHANGED <<batch_status, seen>>
                ELSE IF ~decodable
                THEN Raise(ValueError) /\ UNCHANGED <<batch_status, seen>>
                ELSE /\ batch_status' = state
                     /\ seen' = Record(state)
                     /\ pc' = IF state \notin PollingStops THEN "sleep"
                              ELSE "fetch"
                     /\ error' = error
    /\ UNCHANGED <<operation, job, batch, sleeps, name, result_data, text,
                   orig, decodes, inserts, results,
                   args, par, additional_headers, login>>

\* sleep(wait)
sleep ==
    /\ pc = "sleep"
    /\ sleeps' = IncTo(sleeps, MaxPolls)
    /\ pc' = "status"
    /\ UNCHANGED <<operation, job, batch, batch_status, issued, seen, result,
                   name, result_data, text, orig, decodes, inserts, results,
                   error,
                   args, headers, request, par, additional_headers, login>>

\* _get_batch_results up to the second request (query) or up to the repair
\* loop (any other operation)
get_batch_results ==
    /\ pc = "fetch"
    /\ \E st \in FlowStatusCodes, body \in FlowErrorBodies, decodable \in BOOLEAN,
          ids \in IdLists, txt \in FlowBodies :
          LET url == Url("job/{}/batch/{}/result", batch.jobId, batch.id, "")
              res == Response(url, st,
                              IF st >= 300 THEN body
                              ELSE IF operation = "query" THEN <<>> ELSE txt)
              out == call_salesforce(res)
          IN /\ issued' = Issue("fetch")
             /\ result' = res
             /\ headers' = headers_update(headers, additional_headers_default)
             /\ request' = Request("GET", headers',
                                   Absent)
             /\ IF out.raised
                THEN /\ Raise(out.error)
                     /\ UNCHANGED <<result_data, text, orig, results>>
                ELSE IF operation = "query"
                THEN IF ~decodable
                     THEN /\ Raise(ValueError)
                          /\ UNCHANGED <<result_data, text, orig, results>>
                     ELSE /\ result_data' = ids
                          /\ IF Len(ids) > 0
                             THEN pc' = "fetch2" /\ results' = results
                             ELSE pc' = "returned" /\ results' = Payload(ids)
                          /\ UNCHANGED <<text, orig, error>>
                ELSE /\ pc' = "decode"
                     /\ text' = res.text
                     /\ orig' = res.text
                     /\ UNCHANGED <<result_data, results, error>>
    /\ UNCHANGED <<operation, job, batch, batch_status, sleeps, seen, name,
                   decodes, inserts,
                   args, par, additional_headers, login>>

\* the result url followed by the last identifier of the list
url_query_results_last(b, ids) ==
    Url("job/{}/batch/{}/result/{}", b.jobId, b.id, ids[Len(ids)])

\* url_query_results: "{}{}{}".format(url, '/', result.json()[0])
url_query_results(b, ids) ==
    Url("job/{}/batch/{}/result/{}", b.jobId, b.id, ids[1])

\* the second request of a query: GET {result url}/{result.json()[0]}
get_query_results ==
    /\ pc = "fetch2"
    /\ \E st \in FlowStatusCodes, body \in FlowErrorBodies, txt \in FlowBodies :
          LET url == url_query_results(batch, result_data)
              res == Response(url, st, IF st >= 300 THEN body ELSE txt)
              out == call_salesforce(res)
              r == Loads(res.text)
          IN /\ issued' = Issue("fetch2")
             /\ result' = res
             /\ headers' = headers_update(headers, additional_headers_default)
             /\ request' = Request("GET", headers',
                                   Absent)
             /\ IF out.raised THEN Raise(out.error) /\ results' = results
                ELSE IF ~r.ok THEN Raise(ValueError) /\ results' = results
                ELSE /\ pc' = "returned"
                     /\ results' = Payload(r.val)
                     /\ error' = error
    /\ UNCHANGED <<operation, job, batch, batch_status, sleeps, seen, name,
                   result_data, text, orig, decodes, inserts,
                   args, par, additional_headers, login>>

\* text[:pos] + "," + text[pos + 1:], the comma written over a character
OverwriteWithComma(t, pos) ==
    Slice(t, 0, pos) \o <<",">> \o Slice(t, pos + 1, Len(t))

\* text[:pos] + "," + text[pos:]
InsertComma(t, pos) == Slice(t, 0, pos) \o <<",">> \o Slice(t, pos, Len(t))

\* pattern.fullmatch(str(e)) is not None
PatternMatches(r) == r.msg = DelimiterMsg

\* one pass of the while True loop of _get_batch_results
repair_loop ==
    /\ pc = "decode"
    /\ LET r == Loads(text)
       IN /\ decodes' = IncTo(decodes, MaxDecodes)
          /\ IF r.ok
             THEN /\ pc' = "returned"
                  /\ results' = Payload(r.val)
                  /\ UNCHANGED <<text, inserts>>
             ELSE IF PatternMatches(r)
             THEN /\ text' = InsertComma(text, r.pos)
                  /\ inserts' = inserts + 1
                  /\ UNCHANGED <<pc, results>>
             ELSE UNCHANGED <<pc, results, text, inserts>>
    /\ UNCHANGED <<operation, job, batch, batch_status, issued, sleeps, seen,
                   result, name, result_data, orig, error,
                   args, headers, request, par, additional_headers, login>>

Run ==
    \/ create_job
    \/ add_batch
    \/ close_job
    \/ get_batch
    \/ sleep
    \/ get_batch_results
    \/ get_query_results
    \/ repair_loop

\* a call of one of the six entry points on a handle of the handler, with
\* a record list (a query string for query) as data
Call ==
    \E nm \in ObjectNames :
        \/ delete(Handle(nm), RecordList)
        \/ insert(Handle(nm), RecordList)
        \/ upsert(Handle(nm), RecordList, PyStr(<<"Ext__c">>))
        \/ update(Handle(nm), RecordList)
        \/ hard_delete(Handle(nm), RecordList)
        \/ query(Handle(nm), QueryString)

Next ==
    \/ Call
    \/ Run

Spec == Init /\ [][Next]_vars

\* the steps of the call up to the result request
Polling ==
    \/ create_job
    \/ add_batch
    \/ close_job
    \/ get_batch
    \/ sleep
    \/ get_batch_results

\* the calling thread keeps running: every request is answered and every
\* sleep returns
LiveSpec == Init /\ [][Next]_vars /\ WF_vars(Polling)


\* ------------------------------------------------------------------------
\* Result retrieval of a non-query operation on its own: the state after
\* bulk.py:171 for every result body, then the repair loop
\* ------------------------------------------------------------------------
InitRetrieve ==
    /\ pc = "decode"
    /\ operation \in Operations \ {"query"}
    /\ job = 1
    /\ batch = [jobId |-> 1, id |-> 1]
    /\ batch_status = "Completed"
    /\ issued = [k \in CallKinds |-> IF k = "fetch2" THEN 0 ELSE 1]
    /\ sleeps = 0
    /\ seen = <<"Completed">>
    /\ text \in Bodies
    /\ orig = text
    /\ result = Response(Url("job/{}/batch/{}/result", 1, 1, ""), 200, text)
    /\ name = ""
    /\ result_data = <<>>
    /\ decodes = 0
    /\ inserts = 0
    /\ results = NoResults
    /\ error = NoError
    /\ self = Handle("Lead")
    /\ entry = IF operation = "hardDelete" THEN "hard_delete" ELSE operation
    /\ object_name = "Lead"
    /\ external_id_field = PyNone
    /\ data = RecordList
    /\ headers = InitialHeaders
    /\ request = Request("GET", InitialHeaders, Absent)
    /\ calls = NoCalls
    /\ owner = NoOwner
    /\ additional_headers = NoHeaders
    /\ login = NoLogin

SpecRetrieve == InitRetrieve /\ [][repair_loop]_vars

\* ------------------------------------------------------------------------
\* Concurrent calls of _bulk_operation on handles of one handler: each call
\* has its own locals; the session and the header mapping are shared.  The
\* server gives every created job an id that no other job has, and answers
\* an add-batch request with the job the batch was added to.
\* ------------------------------------------------------------------------
\* the variables of the single call
single == <<pc, operation, job, batch, batch_status, issued, sleeps, seen,
            result, name, result_data, text, orig, decodes, inserts, results,
            error, args, request, additional_headers, login>>

\* the operations of the concurrent calls
ParOperations == {"insert", "query"}

Step(c, l) == calls' = [calls EXCEPT ![c] = l]
Failed(c, u, e) == Step(c, [calls[c] EXCEPT !.pc = "raised", !.url = u, !.error = e])

\* the id the server gives to the next job
FreshJob == CHOOSE j \in JobIds :
                owner[j] = 0 /\ \A k \in JobIds : owner[k] = 0 => j <= k

\* the id of the job created last by any of the calls
job_id_created_last(c) ==
    IF \A j \in JobIds : owner[j] = 0 THEN 0
    ELSE CHOOSE j \in JobIds : owner[j] # 0 /\ \A k \in JobIds : owner[k] # 0 => k <= j

\* job['id'] of the call
job_id(c) == calls[c].job

par_bulk_operation(c, op) ==
    /\ calls[c].pc = "idle"
    /\ Step(c, [calls[c] EXCEPT !.pc = "create", !.operation = op])
    /\ UNCHANGED <<single, headers, owner>>

par_create_job(c) ==
    /\ calls[c].pc = "create"
    /\ \E st \in FlowStatusCodes, body \in FlowErrorBodies, decodable \in BOOLEAN :
          LET u == Url("job", 0, 0, "")
              out == call_salesforce(Response(u, st, IF st >= 300 THEN body ELSE <<>>))
          IN IF out.raised THEN Failed(c, u, out.error.kind) /\ owner' = owner
             ELSE /\ owner' = [owner EXCEPT ![FreshJob] = c]
                  /\ IF ~decodable THEN Failed(c, u, "ValueError")
                     ELSE Step(c, [calls[c] EXCEPT !.pc = "add", !.url = u,
                                                   !.job = FreshJob])
    /\ headers' = headers_update(headers, additional_headers_default)
    /\ UNCHANGED single

par_add_batch(c) ==
    /\ calls[c].pc = "add"
    /\ \E st \in FlowStatusCodes, body \in FlowErrorBodies, decodable \in BOOLEAN,
          bid \in BatchIds :
          LET u == Url("job/{}/batch", job_id(c), 0, "")
              out == call_salesforce(Response(u, st, IF st >= 300 THEN body ELSE <<>>))
          IN IF out.raised THEN Failed(c, u, out.error.kind)
             ELSE IF ~decodable THEN Failed(c, u, "ValueError")
             ELSE Step(c, [calls[c] EXCEPT !.pc = "close", !.url = u,
                                           !.batch = [jobId |-> u.job, id |-> bid]])
    /\ headers' = headers_update(headers, additional_headers_default)
    /\ UNCHANGED <<single, owner>>

par_close_job(c) ==
    /\ calls[c].pc = "close"
    /\ \E st \in FlowStatusCodes, body \in FlowErrorBodies, decodable \in BOOLEAN :
          LET u == Url("job/{}", job_id(c), 0, "")
              out == call_salesforce(Response(u, st, IF st >= 300 THEN body ELSE <<>>))
          IN IF out.raised THEN Failed(c, u, out.error.kind)
             ELSE IF ~decodable THEN Failed(c, u, "ValueError")
             ELSE Step(c, [calls[c] EXCEPT !.pc = "status", !.url = u])
    /\ headers' = headers_update(headers, additional_headers_default)
    /\ UNCHANGED <<single, owner>>

par_get_batch(c) ==
    /\ calls[c].pc = "status"
    /\ \E st \in FlowStatusCodes, body \in FlowErrorBodies, decodable \in BOOLEAN,
          state \in BatchStates :
          LET u == Url("job/{}/batch/{}", calls[c].batch.jobId, calls[c].batch.id, "")
              out == call_salesforce(Response(u, st, IF st >= 300 THEN body ELSE <<>>))
          IN IF out.raised THEN Failed(c, u, out.error.kind)
             ELSE IF ~decodable THEN Failed(c, u, "ValueError")
             ELSE Step(c, [calls[c] EXCEPT
                              !.pc = IF state \notin PollingStops THEN "sleep"
                                     ELSE "fetch",
                              !.url = u, !.batch_status = state])
    /\ headers' = headers_update(headers, additional_headers_default)
    /\ UNCHANGED <<single, owner>>

par_sleep(c) ==
    /\ calls[c].pc = "sleep"
    /\ Step(c, [calls[c] EXCEPT !.pc = "status"])
    /\ UNCHANGED <<single, headers, owner>>

par_get_batch_results(c) ==
    /\ calls[c].pc = "fetch"
    /\ \E st \in FlowStatusCodes, body \in FlowErrorBodies, decodable \in BOOLEAN,
          ids \in IdLists, txt \in FlowBodies :
          LET u == Url("job/{}/batch/{}/result", calls[c].batch.jobId,
                       calls[c].batch.id, "")
              out == call_salesforce(Response(u, st, IF st >= 300 THEN body ELSE <<>>))
          IN IF out.raised THEN Failed(c, u, out.error.kind)
             ELSE IF calls[c].operation = "query"
             THEN IF ~decodable THEN Failed(c, u, "ValueError")
                  ELSE Step(c, [calls[c] EXCEPT
                                   !.pc = IF Len(ids) > 0 THEN "fetch2"
                                          ELSE "returned",
                                   !.url = u, !.result_data = ids,
                                   !.results = IF Len(ids) > 0 THEN NoResults
                                               ELSE Payload(ids)])
             ELSE Step(c, [calls[c] EXCEPT !.pc = "decode", !.url = u,
                                           !.text = txt])
    /\ headers' = headers_update(headers, additional_headers_default)
    /\ UNCHANGED <<single, owner>>

par_get_query_results(c) ==
    /\ calls[c].pc = "fetch2"
    /\ \E st \in FlowStatusCodes, body \in FlowErrorBodies, txt \in FlowBodies :
          LET u == url_query_results(calls[c].batch, calls[c].result_data)
              out == call_salesforce(Response(u, st, IF st >= 300 THEN body ELSE txt))
              r == Loads(txt)
          IN IF out.raised THEN Failed(c, u, out.error.kind)
             ELSE IF ~r.ok THEN Failed(c, u, "ValueError")
             ELSE Step(c, [calls[c] EXCEPT !.pc = "returned", !.url = u,
                                           !.results = Payload(r.val)])
    /\ headers' = headers_update(headers, additional_headers_default)
    /\ UNCHANGED <<single, owner>>

par_repair_loop(c) ==
    /\ calls[c].pc = "decode"
    /\ LET r == Loads(calls[c].text)
       IN IF r.ok
          THEN Step(c, [calls[c] EXCEPT !.pc = "returned",
                                        !.results = Payload(r.val)])
          ELSE IF PatternMatches(r)
          THEN Step(c, [calls[c] EXCEPT !.text = InsertComma(calls[c].text, r.pos)])
          ELSE UNCHANGED calls
    /\ UNCHANGED <<single, headers, owner>>

NextPar ==
    \E c \in CallIds :
        \/ \E op \in ParOperations : par_bulk_operation(c, op)
        \/ par_create_job(c)
        \/ par_add_batch(c)
        \/ par_close_job(c)
        \/ par_get_batch(c)
        \/ par_sleep(c)
        \/ par_get_batch_results(c)
        \/ par_get_query_results(c)
        \/ par_repair_loop(c)

SpecPar == Init /\ [][NextPar]_vars

\* ------------------------------------------------------------------------
\* _create_job called on its own, for every operation, object name and
\* external-id argument
\* ------------------------------------------------------------------------
InitCreate ==
    /\ pc = "create"
    /\ BlankRun
    /\ operation \in Operations
    /\ object_name \in ObjectNames
    /\ external_id_field \in ExternalIds
    /\ self = Handle(object_name)
    /\ entry = ""
    /\ data = Absent
    /\ login = NoLogin

SpecCreate == InitCreate /\ [][create_job]_vars

\* ------------------------------------------------------------------------
\* _add_batch called on its own, for every operation and data, after the
\* job was created
\* ------------------------------------------------------------------------
InitAdd ==
    /\ pc = "add"
    /\ operation \in Operations
    /\ data \in Datas \cup {PyObj(<<"[", "]">>)}
    /\ job \in JobIds
    /\ object_name = "Lead"
    /\ external_id_field = PyNone
    /\ self = Handle(object_name)
    /\ entry = ""
    /\ batch = NoBatch
    /\ batch_status = ""
    /\ issued = [k \in CallKinds |-> IF k = "create" THEN 1 ELSE 0]
    /\ sleeps = 0
    /\ seen = <<>>
    /\ result = Response(Url("job", 0, 0, ""), 200, <<>>)
    /\ name = ""
    /\ result_data = <<>>
    /\ text = <<>>
    /\ orig = <<>>
    /\ decodes = 0
    /\ inserts = 0
    /\ results = NoResults
    /\ error = NoError
    /\ headers = InitialHeaders
    /\ request = Request("POST", InitialHeaders,
                         PyStr(dumps(job_payload(operation, object_name,
                                                 external_id_field))))
    /\ calls = NoCalls
    /\ owner = NoOwner
    /\ additional_headers = NoHeaders
    /\ login = NoLogin

SpecAdd == InitAdd /\ [][add_batch]_vars

\* ------------------------------------------------------------------------
\* _call_salesforce and _exception_handler called on their own, for every
\* response
\* ------------------------------------------------------------------------
InitHttp ==
    /\ pc \in {"gate", "handler"}
    /\ result \in {Response(u, st, b) :
                      u \in Urls, st \in StatusCodes, b \in ErrorBodies}
    /\ name \in (IF pc = "handler" THEN Names ELSE {""})
    /\ operation = ""
    /\ job = 0
    /\ batch = NoBatch
    /\ batch_status = ""
    /\ issued = [k \in CallKinds |-> 0]
    /\ sleeps = 0
    /\ seen = <<>>
    /\ result_data = <<>>
    /\ text = <<>>
    /\ orig = <<>>
    /\ decodes = 0
    /\ inserts = 0
    /\ results = NoResults
    /\ error = NoError
    /\ self = NoHandle
    /\ entry = ""
    /\ object_name = ""
    /\ external_id_field = Absent
    /\ data = Absent
    /\ headers = InitialHeaders
    /\ request = NoRequest
    /\ calls = NoCalls
    /\ owner = NoOwner
    /\ additional_headers \in (IF pc = "gate" THEN AdditionalHeaders
                                ELSE {NoHeaders})
    /\ login = NoLogin

\* _call_salesforce(url, 'GET', session, headers, additional_headers=...)
apply_call_salesforce ==
    /\ pc = "gate"
    /\ headers' = headers_update(headers, additional_headers)
    /\ request' = Request("GET", headers', Absent)
    /\ LET out == call_salesforce(result)
       IN IF out.raised THEN Raise(out.error)
          ELSE pc' = "gate_returned" /\ error' = NoError
    /\ UNCHANGED <<operation, job, batch, batch_status, issued, sleeps, seen,
                   result, name, result_data, text, orig, decodes, inserts,
                   results, args, par, additional_headers, login>>

apply_exception_handler ==
    /\ pc = "handler"
    /\ Raise(exception_handler(result, name))
    /\ UNCHANGED <<operation, job, batch, batch_status, issued, sleeps, seen,
                   result, name, result_data, text, orig, decodes, inserts,
                   results,
                   args, headers, request, par, additional_headers, login>>

NextHttp == apply_call_salesforce \/ apply_exception_handler

SpecHttp == InitHttp /\ [][NextHttp]_vars

\* ------------------------------------------------------------------------
\* _call_salesforce called again and again with the header mapping of one
\* handler, by any of its handles, with and without additional headers
\* ------------------------------------------------------------------------
InitHeaders ==
    /\ pc = "gate"
    /\ result \in {Response(Url("job", 0, 0, ""), st, ErrorBodyRaw) :
                      st \in FlowStatusCodes}
    /\ self \in {Handle(nm) : nm \in ObjectNames}
    /\ additional_headers \in AdditionalHeaders
    /\ headers = InitialHeaders
    /\ request = NoRequest
    /\ name = ""
    /\ operation = ""
    /\ job = 0
    /\ batch = NoBatch
    /\ batch_status = ""
    /\ issued = [k \in CallKinds |-> 0]
    /\ sleeps = 0
    /\ seen = <<>>
    /\ result_data = <<>>
    /\ text = <<>>
    /\ orig = <<>>
    /\ decodes = 0
    /\ inserts = 0
    /\ results = NoResults
    /\ error = NoError
    /\ entry = ""
    /\ object_name = ""
    /\ external_id_field = Absent
    /\ data = Absent
    /\ calls = NoCalls
    /\ owner = NoOwner
    /\ login = NoLogin

\* the next call of _call_salesforce, after the last one returned or raised
next_call_salesforce ==
    /\ pc \in {"gate_returned", "raised"}
    /\ pc' = "gate"
    /\ result' \in {Response(Url("job", 0, 0, ""), st, ErrorBodyRaw) :
                       st \in FlowStatusCodes}
    /\ self' \in {Handle(nm) : nm \in ObjectNames}
    /\ additional_headers' \in AdditionalHeaders
    /\ UNCHANGED <<operation, job, batch, batch_status, issued, sleeps, seen,
                   name, result_data, text, orig, decodes, inserts, results,
                   error, entry, object_name, external_id_field, data,
                   headers, request, par, login>>

NextHeaders == apply_call_salesforce \/ next_call_salesforce

SpecHeaders == InitHeaders /\ [][NextHeaders]_vars


\* ------------------------------------------------------------------------
\* SalesforceLogin (login.py), called with every combination of given and
\* omitted credentials
\* ------------------------------------------------------------------------
LoginStatusCodes == {200, 400, 500}
\* what response.json() gives: a dict with access_token and instance_url, a
\* list of dicts with errorCode and message, a dict with error and
\* error_description, an empty list, or a ValueError
JsonBodies == {"tokens", "error_list", "error_dict", "empty_list", "no_json"}
\* what the two elements read from response.content are: values or None
XmlBodies == {"values", "none"}

\* the variables of the bulk module
bulk == <<pc, operation, job, batch, batch_status, issued, sleeps, seen,
          result, name, result_data, text, orig, decodes, inserts, results,
          error, args, headers, request, par, additional_headers>>

Given(a) == login.args[a] # PyNone

\* all(arg is not None for arg in (refresh_token, consumer_id, consumer_secret))
refresh_flow == Given("refresh_token") /\ Given("consumer_id") /\ Given("consumer_secret")

Raised(kind, code) == [kind |-> kind, code |-> code]
Returned == [kind |-> "returned", code |-> ""]

InitLogin ==
    /\ pc = "idle"
    /\ BlankRun
    /\ operation = ""
    /\ self = NoHandle
    /\ entry = ""
    /\ object_name = ""
    /\ external_id_field = Absent
    /\ data = Absent
    /\ login \in {[NoLogin EXCEPT !.pc = "start", !.args = a] :
                     a \in [LoginArgs -> {PyNone, PyStr(<<"x">>)}]}

\* login.py:85-119: the refresh-token flow
login_refresh ==
    /\ login.pc = "start"
    /\ refresh_flow
    /\ \E st \in LoginStatusCodes, body \in JsonBodies :
          LET out ==
                IF body = "no_json" THEN Raised("ValueError", "")
                ELSE IF st # 200
                THEN CASE body = "error_list" ->
                              Raised("SalesforceAuthenticationFailed", "errorCode")
                       [] body = "empty_list" -> Raised("TypeError", "")
                       [] OTHER -> Raised("KeyError", "")
                ELSE IF body = "tokens" THEN Returned
                ELSE Raised("AttributeError", "")
          IN login' = [login EXCEPT
                          !.pc = IF out = Returned THEN "returned" ELSE "raised",
                          !.flow = "refresh", !.posts = 1,
                          !.response = [status_code |-> st, body |-> body],
                          !.outcome = out]
    /\ UNCHANGED bulk

\* login.py:122-125: escape(username), escape(password)
login_escape ==
    /\ login.pc = "start"
    /\ ~refresh_flow
    /\ login' = IF Given("username") /\ Given("password")
                THEN [login EXCEPT !.pc = "body"]
                ELSE [login EXCEPT !.pc = "raised",
                                   !.outcome = Raised("AttributeError", "")]
    /\ UNCHANGED bulk

\* login.py:127-204: the choice of the SOAP request body
login_body ==
    /\ login.pc = "body"
    /\ login' =
          IF Given("security_token")
          THEN [login EXCEPT !.pc = "post", !.flow = "security_token"]
          ELSE IF Given("organizationId")
          THEN [login EXCEPT !.pc = "post", !.flow = "organizationId"]
          ELSE IF Given("username") /\ Given("password")
          THEN [login EXCEPT !.pc = "post", !.flow = "ip_filtering"]
          ELSE [login EXCEPT !.pc = "raised",
                             !.outcome = Raised("SalesforceAuthenticationFailed",
                                                "INVALID AUTH")]
    /\ UNCHANGED bulk

\* login.py:206-229: the SOAP login request and its response
login_post ==
    /\ login.pc = "post"
    /\ \E st \in LoginStatusCodes, body \in XmlBodies :
          LET out ==
                IF st # 200
                THEN Raised("SalesforceAuthenticationFailed",
                            IF body = "values" THEN "sf:exceptionCode" ELSE "None")
                ELSE IF body = "values" THEN Returned
                ELSE Raised("AttributeError", "")
          IN login' = [login EXCEPT
                          !.pc = IF out = Returned THEN "returned" ELSE "raised",
                          !.posts = 1,
                          !.response = [status_code |-> st, body |-> body],
                          !.outcome = out]
    /\ UNCHANGED bulk

NextLogin == login_refresh \/ login_escape \/ login_body \/ login_post

SpecLogin == InitLogin /\ [][NextLogin]_vars

\* ------------------------------------------------------------------------
\* Properties
\* ------------------------------------------------------------------------
\* the terminal states of a batch as the specification's glossary names them
TerminalStates == {"Completed", "Failed", "NotProcessed"}

NonTerminalReads == Cardinality({i \in 1..Len(seen) : seen[i] \notin TerminalStates})

\* C1: a run that returns a payload has issued exactly one create-job, one
\* add-batch and one close-job request, in the order create < add-batch <
\* close < first status read < result fetch; no status read is issued before
\* the close request and no result fetch before a status read has returned a
\* terminal state (Completed, Failed or NotProcessed).
C1_CallOrder ==
    [][ /\ (pc' = "returned" =>
               issued'["create"] = 1 /\ issued'["add"] = 1 /\ issued'["close"] = 1)
        /\ (issued'["add"] # issued["add"] =>
               issued["create"] = 1 /\ issued["close"] = 0)
        /\ (issued'["close"] # issued["close"] =>
               issued["add"] = 1 /\ issued["status"] = 0)
        /\ (issued'["status"] # issued["status"] => issued["close"] = 1)
        /\ (issued'["fetch"] # issued["fetch"] =>
               /\ issued["status"] >= 1
               /\ batch_status \in TerminalStates) ]_vars

\* C2: a status read stops the polling loop exactly when the state it returns
\* is Completed, Failed or NotProcessed; for every other state the loop sleeps
\* and reads again.
C2_PollingStopsOnTerminal ==
    [][ pc = "status" /\ pc' # "raised" =>
           /\ (batch_status' \in TerminalStates => pc' = "fetch")
           /\ (batch_status' \notin TerminalStates => pc' = "sleep") ]_vars

\* C3: when the polling loop ends, the number of sleeps equals the number of
\* status reads that returned a non-terminal state and the number of status
\* reads is that number plus one; the states Queued, InProgress, Completed
\* give two sleeps, the state Failed alone gives none; every sleep lies
\* between two consecutive status reads.
C3_SleepsCountNonTerminalReads ==
    /\ (pc = "fetch" /\ issued["status"] <= MaxPolls =>
           /\ sleeps = NonTerminalReads
           /\ issued["status"] = NonTerminalReads + 1)
    /\ (pc = "fetch" /\ seen = <<"Queued", "InProgress", "Completed">>
           /\ issued["status"] = 3 => sleeps = 2)
    /\ (pc = "fetch" /\ seen = <<"Failed">> => sleeps = 0)
    /\ (issued["status"] <= MaxPolls =>
           IF pc = "status" THEN sleeps = issued["status"]
           ELSE issued["status"] = 0 \/ sleeps = issued["status"] - 1)

\* C4: once a status read has returned a terminal state (Completed, Failed or
\* NotProcessed) and no request fails, the run reaches the result retrieval.
C4_TerminalLeadsToRetrieval ==
    (batch_status \in TerminalStates) ~> (issued["fetch"] > 0 \/ pc = "raised")

TypedErrors == {"SalesforceMoreThanOneRecord", "SalesforceMalformedRequest",
                "SalesforceExpiredSession", "SalesforceRefusedRequest",
                "SalesforceResourceNotFound", "SalesforceGeneralError"}

\* C5: a request of a run that is answered with a status of 300 or above ends
\* the run with a typed error for that response: no request is issued after
\* it (the failed one is not repeated) and no payload is returned.
C5_FailedCallEndsRun ==
    [][ /\ pc # "raised"
        /\ (result'.status_code >= 300 =>
               /\ pc' = "raised"
               /\ error'.kind \in TypedErrors
               /\ error'.status = result'.status_code
               /\ error'.url = result'.url
               /\ results' = NoResults) ]_vars

\* a failed add-batch: no close, no status read, no fetch was issued
C5_Witness ==
    /\ pc = "raised"
    /\ error.kind = "SalesforceResourceNotFound"
    /\ issued["add"] = 1
    /\ issued["close"] = 0 /\ issued["status"] = 0 /\ issued["fetch"] = 0

KindFor(status) ==
    IF status = 300 THEN "SalesforceMoreThanOneRecord"
    ELSE IF status = 400 THEN "SalesforceMalformedRequest"
    ELSE IF status = 401 THEN "SalesforceExpiredSession"
    ELSE IF status = 403 THEN "SalesforceRefusedRequest"
    ELSE IF status = 404 THEN "SalesforceResourceNotFound"
    ELSE "SalesforceGeneralError"

\* C7: _exception_handler always raises; the error kind is chosen by the exact
\* status (300, 400, 401, 403, 404, anything else a general error), and the
\* error carries the response's URL, its status, the resource name passed in
\* and the body, parsed when it is JSON and raw otherwise.
C7_ErrorClassifier ==
    /\ pc \notin {"gate", "handler", "gate_returned"} =>
          /\ pc = "raised"
          /\ error.kind = KindFor(result.status_code)
          /\ error.url = result.url
          /\ error.status = result.status_code
          /\ error.resource_name = name
          /\ (result.text = ErrorBodyJson =>
                 error.content = [parsed |-> TRUE, val |-> <<"[", "1", "]">>])
          /\ (result.text = ErrorBodySpaced =>
                 error.content = [parsed |-> TRUE, val |-> <<"[", "1", ",", "1", "]">>])
          /\ (result.text = ErrorBodyRaw =>
                 error.content = [parsed |-> FALSE, val |-> <<"a", "b">>])

C7_Witness ==
    /\ pc = "raised"
    /\ name = "Lead"
    /\ result.status_code \in {500, 200}
    /\ error.kind = "SalesforceGeneralError"
    /\ error.content.parsed

\* C8: a decoding error other than the "Expecting ',' delimiter" one ends the
\* result retrieval by propagating that error: the text is left as it is and
\* decoding is not attempted again.
C8_OtherErrorPropagates ==
    [][ pc = "decode" /\ ~Loads(text).ok /\ Loads(text).msg # DelimiterMsg =>
           /\ pc' = "raised"
           /\ error'.kind = "ValueError"
           /\ text' = text ]_vars

\* C9: a repair pass for a delimiter error at offset p turns the text into
\* text[0..p) + "," + text[p..): one character longer, unchanged before p and
\* from p on, and decoding is tried again; no other pass changes the text, and
\* a body that decodes at the first attempt is returned without an insertion.
C9_RepairInsertsOneComma ==
    [][ pc = "decode" =>
          LET r == Loads(text)
          IN /\ (~r.ok /\ r.msg = DelimiterMsg =>
                    /\ Len(text') = Len(text) + 1
                    /\ \A i \in 1..r.pos : text'[i] = text[i]
                    /\ text'[r.pos + 1] = ","
                    /\ \A i \in (r.pos + 1)..Len(text) : text'[i + 1] = text[i]
                    /\ inserts' = inserts + 1
                    /\ pc' = "decode")
             /\ (r.ok \/ r.msg # DelimiterMsg =>
                    text' = text /\ inserts' = inserts)
             /\ (r.ok /\ decodes = 0 =>
                    /\ pc' = "returned"
                    /\ inserts' = 0
                    /\ text' = orig
                    /\ results' = Payload(r.val))
             /\ Len(text') = Len(orig) + inserts' ]_vars

\* a list of two objects without a separator, returned after one insertion
C9_Witness ==
    /\ orig = TwoObjectsInList
    /\ pc = "returned"
    /\ inserts = 1
    /\ text = TwoObjectsJoined

\* C10: the body {"a":1}{"b":2} is returned decoded after exactly one repair
\* pass, and a body with another decoding error (truncated JSON) makes the
\* retrieval raise that decoding error.
C10_TwoObjectsRepaired ==
    /\ (orig = TwoObjects /\ decodes >= 2 => pc = "returned" /\ inserts = 1)
    /\ (orig = TruncatedObject /\ decodes >= 1 =>
           pc = "raised" /\ error.kind = "ValueError")

\* C11: result retrieval for a query issues one GET on the result resource;
\* with an empty list of identifiers it returns that list and issues no
\* second request; with a non-empty list it issues exactly one further GET,
\* to {result url}/{first identifier}, and returns the decoded body of that
\* response; for any other operation the retrieval issues exactly one GET
\* and never a second one.
C11_QueryRetrieval ==
    /\ issued["fetch"] <= 1 /\ issued["fetch2"] <= 1
    /\ (pc \in {"fetch2", "decode", "returned"} => issued["fetch"] = 1)
    /\ (operation # "query" => issued["fetch2"] = 0 /\ pc # "fetch2")
    /\ (issued["fetch2"] = 1 =>
           /\ result_data # <<>>
           /\ result.url = Url("job/{}/batch/{}/result/{}", batch.jobId,
                               batch.id, Head(result_data)))
    /\ (operation = "query" /\ pc = "returned" =>
           IF result_data = <<>>
           THEN issued["fetch2"] = 0 /\ results = Payload(<<>>)
           ELSE /\ issued["fetch2"] = 1
                /\ Loads(result.text).ok
                /\ results = Payload(Loads(result.text).val))

\* a query answered with two identifiers: only the first one was requested
C11_Witness ==
    /\ operation = "query"
    /\ pc = "returned"
    /\ result_data = <<"r2", "r1">>
    /\ issued["fetch2"] = 1
    /\ result.url.rid = "r2"
    /\ results.set

\* the value of the field k in the compact serialisation c of a flat dict
HasField(c, k) ==
    \E i \in 1..(Len(c) - 4) :
        SubSeq(c, i + 1, i + 4) = <<QUOTE, k, QUOTE, ":">> /\ c[i] \in {"{", ","}
FieldValue(c, k) ==
    LET i == CHOOSE n \in 1..(Len(c) - 4) :
                 SubSeq(c, n + 1, n + 4) = <<QUOTE, k, QUOTE, ":">>
    IN IF c[i + 5] = QUOTE THEN SubSeq(c, i + 5, i + 7) ELSE <<c[i + 5]>>
Fields(c) == Cardinality({i \in 1..Len(c) : c[i] = ":"})

\* C12: the body of the job-creation request is the serialisation of a dict
\* that has the field externalIdFieldName, equal to the external-id argument,
\* exactly when the operation is upsert; it always has the fields operation,
\* object and contentType = JSON, and no other field.
C12_ExternalIdOnlyForUpsert ==
    issued["create"] = 1 =>
        LET r == Loads(request.data.val)
        IN /\ request.method = "POST"
           /\ request.data.type = "str"
           /\ r.ok
           /\ (HasField(r.val, "externalIdFieldName") <=> operation = "upsert")
           /\ (operation = "upsert" =>
                  FieldValue(r.val, "externalIdFieldName")
                      = (IF external_id_field = PyNone THEN <<NULL>>
                         ELSE <<QUOTE>> \o external_id_field.val \o <<QUOTE>>))
           /\ HasField(r.val, "operation")
           /\ FieldValue(r.val, "operation") = <<QUOTE, operation, QUOTE>>
           /\ HasField(r.val, "object")
           /\ FieldValue(r.val, "object") = <<QUOTE, object_name, QUOTE>>
           /\ HasField(r.val, "contentType")
           /\ FieldValue(r.val, "contentType") = <<QUOTE, "JSON", QUOTE>>
           /\ Fields(r.val) = (IF operation = "upsert" THEN 4 ELSE 3)

\* an insert job created although an external-id field was passed
C12_Witness ==
    /\ pc = "add"
    /\ operation = "insert"
    /\ external_id_field = PyStr(<<"Ext__c">>)
    /\ issued["create"] = 1
    /\ ~HasField(Loads(request.data.val).val, "externalIdFieldName")

\* C13: the body of the add-batch request is the caller's data itself exactly
\* when the operation is query; for any other operation it is a text that
\* decodes to the caller's data, that is, the data serialised once.
C13_BatchBody ==
    issued["add"] = 1 =>
        /\ request.method = "POST"
        /\ (request.data = data <=> operation = "query")
        /\ (operation # "query" =>
               /\ request.data.type = "str"
               /\ Loads(request.data.val).ok
               /\ Loads(request.data.val).val
                      = (IF data.type = "str"
                         THEN <<QUOTE>> \o data.val \o <<QUOTE>> ELSE data.val))

\* a record list sent by insert
C13_Witness ==
    /\ pc = "close"
    /\ operation = "insert"
    /\ data = RecordList
    /\ issued["add"] = 1
    /\ request.data # data
    /\ Loads(request.data.val).val = RecordList.val

\* the operation the specification gives for each public entry point
EntryOperation(e) ==
    CASE e = "insert" -> "insert"
      [] e = "update" -> "update"
      [] e = "upsert" -> "upsert"
      [] e = "delete" -> "delete"
      [] e = "hard_delete" -> "hardDelete"
      [] e = "query" -> "query"

\* C14: each entry point starts the one flow with its fixed operation, the
\* object name of the handle it was called on and, for upsert, the supplied
\* external-id field; operation and object name do not change during the
\* call, and the operation written into the job payload, the one that
\* chooses the serialisation of the batch and the one that chooses the
\* retrieval path are all that operation.
C14_EntryPointsFixOperation ==
    [][ /\ (pc = "idle" /\ pc' = "create" =>
               /\ operation' = EntryOperation(entry')
               /\ object_name' = self'.object_name
               /\ external_id_field'
                      = (IF entry' = "upsert" THEN PyStr(<<"Ext__c">>) ELSE PyNone))
        /\ (pc # "idle" => UNCHANGED <<self, entry, operation, object_name>>)
        /\ (issued'["create"] # issued["create"] =>
               LET c == Loads(request'.data.val).val
               IN /\ FieldValue(c, "operation")
                        = <<QUOTE, EntryOperation(entry), QUOTE>>
                  /\ FieldValue(c, "object") = <<QUOTE, self.object_name, QUOTE>>
                  /\ (HasField(c, "externalIdFieldName") <=> entry = "upsert"))
        /\ (issued'["add"] # issued["add"] =>
               (request'.data = data <=> entry = "query"))
        /\ (issued'["fetch"] # issued["fetch"] /\ pc' # "raised" =>
               IF entry = "query" THEN pc' \in {"fetch2", "returned"}
               ELSE pc' = "decode")
        /\ (pc' = "fetch2" => entry = "query")
        /\ (pc' = "decode" => entry # "query") ]_vars

\* hard_delete on the handle Contact, returned
C14_Witness ==
    /\ pc = "returned"
    /\ entry = "hard_delete"
    /\ self = Handle("Contact")
    /\ operation = "hardDelete"
    /\ object_name = "Contact"

\* the requests of a call that name a job, and those that name a batch
JobPaths == {"job/{}", "job/{}/batch"}
BatchPaths == {"job/{}/batch/{}", "job/{}/batch/{}/result",
               "job/{}/batch/{}/result/{}"}

\* C15: under every interleaving of two calls that share the session and the
\* header mapping, each call that gets past its create request has a job of
\* its own; its add-batch and close requests name the job id returned by its
\* own create request, its status reads and result fetches name the job id and
\* batch id returned by its own add-batch request, and no request names a job
\* created by the other call; a step of one call changes neither the locals of
\* the other call nor the shared header mapping.
C15_CallsKeepOwnJob ==
    [][ \A c \in CallIds :
           LET l == calls'[c]
           IN /\ (l.job # 0 => owner'[l.job] = c)
              /\ (l.url.path \in JobPaths =>
                     l.url.job = l.job /\ owner'[l.url.job] = c)
              /\ (l.url.path \in BatchPaths =>
                     /\ l.url.job = l.batch.jobId
                     /\ l.url.batch = l.batch.id
                     /\ owner'[l.url.job] = c)
              /\ (\A d \in CallIds \ {c} : l.job # 0 => calls'[d].job # l.job)
              /\ (l # calls[c] => \A d \in CallIds \ {c} : calls'[d] = calls[d])
              /\ headers' = headers ]_vars

\* both calls have fetched results, each from the batch of its own job
C15_Witness ==
    /\ calls[1].pc = "returned" /\ calls[2].pc = "returned"
    /\ calls[1].job = 2 /\ calls[2].job = 1
    /\ calls[1].url.job = 2 /\ calls[2].url.job = 1
    /\ calls[1].operation = "query" /\ calls[2].operation = "insert"

\* C16: a call of _call_salesforce writes its additional headers into the
\* shared header mapping before the request is sent, whether the call then
\* returns or raises: the request carries the whole mapping, every entry of
\* the mapping that the call does not overwrite keeps its value, and the
\* mapping does not change between calls, whichever handle calls next.
C16_AdditionalHeadersPersist ==
    [][ /\ (pc = "gate" =>
               /\ DOMAIN headers' = DOMAIN headers \cup DOMAIN additional_headers
               /\ \A k \in DOMAIN additional_headers :
                      headers'[k] = additional_headers[k]
               /\ \A k \in DOMAIN headers \ DOMAIN additional_headers :
                      headers'[k] = headers[k]
               /\ request'.headers = headers'
               /\ pc' \in {"gate_returned", "raised"})
        /\ (pc # "gate" => headers' = headers) ]_vars

\* a call without additional headers that was sent with the header of an
\* earlier call, and raised
C16_Witness ==
    /\ pc = "raised"
    /\ additional_headers = NoHeaders
    /\ "X-A" \in DOMAIN request.headers
    /\ request.headers["X-A"] = "2"
    /\ request.headers["X-PrettyPrint"] = "0"
    /\ self = Handle("Contact")

\* C17: a status read that returns Failed or NotProcessed ends the polling
\* exactly as one that returns Completed does: no error is raised for the
\* state and the run goes on to the result retrieval, which then takes the
\* path of the operation and returns its payload.
C17_FailedHandledLikeCompleted ==
    [][ /\ (pc = "status" /\ pc' # "raised"
               /\ batch_status' \in {"Completed", "Failed", "NotProcessed"} =>
               pc' = "fetch" /\ error' = NoError)
        /\ (pc = "fetch" /\ pc' # "raised" =>
               /\ issued'["fetch"] = 1
               /\ pc' = (IF operation # "query" THEN "decode"
                         ELSE IF result_data' # <<>> THEN "fetch2"
                         ELSE "returned")) ]_vars

\* C18: every error that _call_salesforce raises during a call carries the
\* empty resource name; for a 404 it is a SalesforceResourceNotFound whose
\* message is the template "Resource {name} Not Found. Response content:
\* {content}" filled with that empty name and the body, and with nothing
\* else: the request URL is not part of it.
C18_GateErrorsNameNoResource ==
    error.kind \in TypedErrors =>
        /\ error.resource_name = ""
        /\ (error.status = 404 =>
               /\ error.kind = "SalesforceResourceNotFound"
               /\ error.url = result.url
               /\ LET m == SalesforceResourceNotFound_str(error)
                  IN /\ m.format.name = ""
                     /\ DOMAIN m.format = {"name", "content"}
                     /\ m.format.content = error.content)

\* a 404 on the result resource of a batch
C18_Witness ==
    /\ pc = "raised"
    /\ error.kind = "SalesforceResourceNotFound"
    /\ error.url.path = "job/{}/batch/{}/result"
    /\ error.resource_name = ""

\* C19: no request of an orchestrated call passes additional headers: in
\* every state of a call, returned or raised, the shared header mapping has
\* exactly the entries Content-Type = application/json, X-SFDC-Session = the
\* session id and X-PrettyPrint = 1, and every request was sent with exactly
\* these headers.
C19_FlowKeepsHeaders ==
    /\ DOMAIN headers = {"Content-Type", "X-SFDC-Session", "X-PrettyPrint"}
    /\ headers["Content-Type"] = "application/json"
    /\ headers["X-SFDC-Session"] = SessionId
    /\ headers["X-PrettyPrint"] = "1"
    /\ (\E k \in CallKinds : issued[k] > 0) => request.headers = headers
    /\ additional_headers = NoHeaders

\* a query that returned after six requests
C19_Witness ==
    /\ pc = "returned"
    /\ operation = "query"
    /\ \A k \in CallKinds : issued[k] = 1
    /\ request.method = "GET"
    /\ request.headers = InitialHeaders
    /\ headers = InitialHeaders

\* C20: a call of SalesforceLogin without a complete refresh-token triple,
\* without a security token, without an organizationId and without both a
\* username and a password ends by raising SalesforceAuthenticationFailed
\* with the code INVALID AUTH and posts no login request; every other call
\* posts exactly one login request, and whenever the response status is not
\* 200 the call raises SalesforceAuthenticationFailed and returns no pair.
C20_LoginOutcome ==
    login.pc \in {"returned", "raised"} =>
        IF /\ ~refresh_flow
           /\ ~Given("security_token")
           /\ ~Given("organizationId")
           /\ ~(Given("username") /\ Given("password"))
        THEN /\ login.outcome = Raised("SalesforceAuthenticationFailed",
                                       "INVALID AUTH")
             /\ login.posts = 0
        ELSE /\ login.posts = 1
             /\ (login.response.status_code # 200 =>
                    login.outcome.kind = "SalesforceAuthenticationFailed")

====
